---- MODULE Spec2Model ----
(***************************************************************************)
(* The spaCy NLP API of src/main.py: a FastAPI application that loads one  *)
(* spaCy pipeline at import time and serves five POST endpoints, each an   *)
(* `async def` handler that calls the pipeline synchronously and projects  *)
(* the resulting Doc into a response.                                      *)
(*                                                                         *)
(* Texts are sequences of one-character strings.  Python offsets are       *)
(* 0-based and half-open; TLA+ sequences are 1-based and closed, and the   *)
(* conversions are written out where they happen (Slice).                  *)
(*                                                                         *)
(* The pipeline itself (spaCy, en_core_web_sm) is not part of the          *)
(* repository.  It is modelled by a small deterministic stand-in that      *)
(* keeps the Doc interface main.py consumes: non-destructive tokenization, *)
(* spans addressed by character offsets, one root per sentence whose head  *)
(* is itself, children in document order, and a similarity of two Docs.    *)
(* What the pipeline answers depends on the installed build of the model   *)
(* package, which is chosen by the environment.                            *)
(***************************************************************************)
EXTENDS Integers, Sequences, FiniteSets, TLC

(* ---- bounds of the model ---- *)
\* longest request payload, in characters (for /similarity: all texts together)
MaxTextLen == 3
\* longest `texts` list sent to /similarity
MaxTexts == 3
\* most requests the clients send in one run of the process
MaxReqs == 3

(* ---- texts ---- *)
Chars == {"A", " ", "."}

RECURSIVE SeqsUpTo(_, _)
SeqsUpTo(S, n) ==
    IF n = 0 THEN {<<>>}
    ELSE LET shorter == SeqsUpTo(S, n - 1)
         IN  shorter \cup {Append(s, c) : s \in {t \in shorter : Len(t) = n - 1}, c \in S}

Texts == SeqsUpTo(Chars, MaxTextLen)

\* Python's text[start:end] for 0 <= start <= end <= len(text)
Slice(text, start, end) == SubSeq(text, start + 1, end)

RECURSIVE TextLists(_, _)
\* the lists of at most n texts that hold at most `room` characters together
TextLists(n, room) ==
    IF n = 0 THEN {<<>>}
    ELSE {<<>>} \cup
         UNION {{<<t>> \o rest : rest \in TextLists(n - 1, room - Len(t))} :
                t \in {u \in Texts : Len(u) <= room}}

(* ---- the pipeline: nlp(text) -> Doc ---- *)
\* the builds of the package "en_core_web_sm" an environment may have installed
Builds == {[rightHeaded |-> TRUE, entLabel |-> "ORG"],
           [rightHeaded |-> FALSE, entLabel |-> "GPE"]}

CharKind(c) == IF c = " " THEN "space" ELSE IF c = "." THEN "punct" ELSE "word"

RECURSIVE RunEnd(_, _)
\* the last position of the run of same-kind characters that starts at p
RunEnd(text, p) ==
    IF p < Len(text) /\ CharKind(text[p + 1]) = CharKind(text[p])
    THEN RunEnd(text, p + 1) ELSE p

RECURSIVE Tokenize(_, _)
\* the tokens of text from position p on: a word, a punctuation mark or a run
\* of spaces each; one space after a word or mark is its trailing whitespace
Tokenize(text, p) ==
    IF p > Len(text) THEN <<>>
    ELSE LET k  == CharKind(text[p])
             q  == IF k = "punct" THEN p ELSE RunEnd(text, p)
             ws == k # "space" /\ q < Len(text) /\ text[q + 1] = " "
         IN  <<[text |-> SubSeq(text, p, q), idx |-> p - 1, kind |-> k, ws |-> ws]>>
             \o Tokenize(text, IF ws THEN q + 2 ELSE q + 1)

RECURSIVE SentOf(_, _)
\* the number of the sentence token i lies in: a mark ends its sentence
SentOf(toks, i) ==
    IF i = 1 THEN 1
    ELSE SentOf(toks, i - 1) + (IF toks[i - 1].kind = "punct" THEN 1 ELSE 0)

Lower(c) == IF c = "A" THEN "a" ELSE c

\* the root of the sentence holding the tokens `members`
RootOf(build, toks, members) ==
    LET words == {i \in members : toks[i].kind = "word"}
        Max(S) == CHOOSE x \in S : \A y \in S : y <= x
        Min(S) == CHOOSE x \in S : \A y \in S : x <= y
    IN  IF build.rightHeaded
        THEN (IF words # {} THEN Max(words) ELSE Max(members))
        ELSE Min(members)

Doc(build, text) ==
    LET toks == Tokenize(text, 1)
        n    == Len(toks)
        sent == [i \in 1..n |-> SentOf(toks, i)]
        root == [i \in 1..n |-> RootOf(build, toks, {j \in 1..n : sent[j] = sent[i]})]
        head == [i \in 1..n |->
                    IF root[i] = i THEN i
                    ELSE IF build.rightHeaded THEN root[i] ELSE i - 1]
    IN  [text   |-> text,
         tokens |-> [i \in 1..n |->
                       [text  |-> toks[i].text,
                        idx   |-> toks[i].idx,
                        ws    |-> toks[i].ws,
                        kind  |-> toks[i].kind,
                        sent  |-> sent[i],
                        head  |-> head[i],
                        pos   |-> CASE toks[i].kind = "word"  -> "PROPN"
                                    [] toks[i].kind = "punct" -> "PUNCT"
                                    [] OTHER                  -> "SPACE",
                        tag   |-> CASE toks[i].kind = "word"  -> "NNP"
                                    [] toks[i].kind = "punct" -> "."
                                    [] OTHER                  -> "_SP",
                        dep   |-> CASE head[i] = i              -> "ROOT"
                                    [] toks[i].kind = "word"  -> "compound"
                                    [] toks[i].kind = "punct" -> "punct"
                                    [] OTHER                  -> "dep",
                        lemma |-> [k \in 1..Len(toks[i].text) |-> Lower(toks[i].text[k])]]],
         build  |-> build]

(* ---- spans of a Doc: tokens first..last ---- *)
StartChar(doc, span) == doc.tokens[span.first].idx
EndChar(doc, span) ==
    doc.tokens[span.last].idx + Len(doc.tokens[span.last].text)
RECURSIVE TextWithWs(_, _, _)
\* the texts of tokens i..last, each but the last with its trailing whitespace
TextWithWs(doc, i, last) ==
    IF i > last THEN <<>>
    ELSE doc.tokens[i].text
         \o (IF i < last /\ doc.tokens[i].ws THEN <<" ">> ELSE <<>>)
         \o TextWithWs(doc, i + 1, last)
\* span.text
SpanText(doc, span) == TextWithWs(doc, span.first, span.last)

RECURSIVE Runs(_, _, _)
\* the maximal runs of consecutive tokens satisfying member[_], from token i on
Runs(member, n, i) ==
    IF i > n THEN <<>>
    ELSE IF ~member[i] THEN Runs(member, n, i + 1)
    ELSE LET RECURSIVE End(_)
             End(j) == IF j < n /\ member[j + 1] THEN End(j + 1) ELSE j
             e == End(i)
         IN  <<[first |-> i, last |-> e]>> \o Runs(member, n, e + 1)

\* doc.ents: every maximal run of word tokens, labelled by the build
Ents(doc) ==
    LET n == Len(doc.tokens)
        r == Runs([i \in 1..n |-> doc.tokens[i].kind = "word"], n, 1)
    IN  [k \in 1..Len(r) |-> [first |-> r[k].first, last |-> r[k].last,
                              label |-> doc.build.entLabel]]

\* doc.noun_chunks: every word token
NounChunks(doc) ==
    LET n == Len(doc.tokens)
        RECURSIVE From(_)
        From(i) == IF i > n THEN <<>>
                   ELSE (IF doc.tokens[i].kind = "word"
                         THEN <<[first |-> i, last |-> i]>> ELSE <<>>) \o From(i + 1)
    IN  From(1)

\* doc.sents: the tokens of each sentence
Sents(doc) ==
    LET n == Len(doc.tokens)
        count == IF n = 0 THEN 0 ELSE doc.tokens[n].sent
        Min(S) == CHOOSE x \in S : \A y \in S : x <= y
        Max(S) == CHOOSE x \in S : \A y \in S : y <= x
    IN  [s \in 1..count |->
            [first |-> Min({i \in 1..n : doc.tokens[i].sent = s}),
             last  |-> Max({i \in 1..n : doc.tokens[i].sent = s})]]

\* token.children: the tokens whose head is token i, in document order
Children(doc, i) ==
    LET n == Len(doc.tokens)
        RECURSIVE From(_)
        From(j) == IF j > n THEN <<>>
                   ELSE (IF j # i /\ doc.tokens[j].head = i THEN <<j>> ELSE <<>>)
                        \o From(j + 1)
    IN  From(1)

\* doc1.similarity(doc2): the cosine of the two Docs' vectors, kept as the
\* exact fraction num/den of its square; a Doc with no vector gives 0.0
Vector(doc) ==
    LET n == Len(doc.tokens)
    IN  <<Cardinality({i \in 1..n : doc.tokens[i].kind = "word"}),
          Cardinality({i \in 1..n : doc.tokens[i].kind # "word"})>>

Similarity(doc1, doc2) ==
    LET v == Vector(doc1)
        w == Vector(doc2)
        dot == v[1] * w[1] + v[2] * w[2]
        nv == v[1] * v[1] + v[2] * v[2]
        nw == w[1] * w[1] + w[2] * w[2]
    IN  IF nv = 0 \/ nw = 0
        THEN [type |-> "float", num |-> 0, den |-> 1]
        ELSE [type |-> "numpy.float32", num |-> dot * dot, den |-> nv * nw]

\* float(x)
Float(x) == [x EXCEPT !.type = "float"]

(* ---- the endpoints' responses (src/main.py) ---- *)
Ok(body) == [status |-> 200, body |-> body]
HTTPException(status_code, detail) == [status |-> status_code, detail |-> detail]
NoResponse == [status |-> 0]

\* the offsets taken from ent.start and ent.end, which count tokens
named_entity_recognition_TokenOffsets(doc) ==
    LET ents == Ents(doc)
    IN  [entities |-> [k \in 1..Len(ents) |->
            [text  |-> SpanText(doc, ents[k]),
             label |-> ents[k].label,
             start |-> ents[k].first - 1,
             end   |-> ents[k].last]]]

\* POST /ner: one Entity per doc.ents element
named_entity_recognition(doc) ==
    LET ents == Ents(doc)
    IN  [entities |-> [k \in 1..Len(ents) |->
            [text  |-> SpanText(doc, ents[k]),
             label |-> ents[k].label,
             start |-> StartChar(doc, ents[k]),
             end   |-> EndChar(doc, ents[k])]]]

\* the whitespace tokens left out
parts_of_speech_NoSpace(doc) ==
    LET keep == SelectSeq(doc.tokens, LAMBDA t : t.kind # "space")
    IN  [tokens |-> [i \in 1..Len(keep) |->
            [text  |-> keep[i].text,
             pos   |-> keep[i].pos,
             tag   |-> keep[i].tag,
             dep   |-> keep[i].dep,
             lemma |-> keep[i].lemma]]]

\* POST /pos: one Token per token of the doc
parts_of_speech(doc) ==
    [tokens |-> [i \in 1..Len(doc.tokens) |->
        [text  |-> doc.tokens[i].text,
         pos   |-> doc.tokens[i].pos,
         tag   |-> doc.tokens[i].tag,
         dep   |-> doc.tokens[i].dep,
         lemma |-> doc.tokens[i].lemma]]]

\* POST /similarity, the check on the request
SimilarityDetail == "Exactly two texts must be provided for similarity comparison"
\* the check written as "fewer than two"
text_similarity_check_AtLeastTwo(texts) ==
    IF Len(texts) < 2 THEN HTTPException(400, SimilarityDetail) ELSE NoResponse

text_similarity_check(texts) ==
    IF Len(texts) # 2 THEN HTTPException(400, SimilarityDetail) ELSE NoResponse

\* the first Doc compared with itself
text_similarity_Self(doc1, doc2) == [similarity |-> Float(Similarity(doc1, doc1))]

\* POST /similarity, the answer
text_similarity(doc1, doc2) == [similarity |-> Float(Similarity(doc1, doc2))]

\* the whole text given as the one sentence of a Doc that has none
basic_analysis_WholeText(doc) ==
    LET sents  == Sents(doc)
        chunks == NounChunks(doc)
    IN  [tokens       |-> [i \in 1..Len(doc.tokens) |-> doc.tokens[i].text],
         lemmas       |-> [i \in 1..Len(doc.tokens) |-> doc.tokens[i].lemma],
         sentences    |-> IF Len(sents) = 0 THEN <<doc.text>>
                          ELSE [k \in 1..Len(sents) |-> SpanText(doc, sents[k])],
         noun_phrases |-> [k \in 1..Len(chunks) |-> SpanText(doc, chunks[k])]]

\* POST /basic-analysis
basic_analysis(doc) ==
    LET sents  == Sents(doc)
        chunks == NounChunks(doc)
    IN  [tokens       |-> [i \in 1..Len(doc.tokens) |-> doc.tokens[i].text],
         lemmas       |-> [i \in 1..Len(doc.tokens) |-> doc.tokens[i].lemma],
         sentences    |-> [k \in 1..Len(sents) |-> SpanText(doc, sents[k])],
         noun_phrases |-> [k \in 1..Len(chunks) |-> SpanText(doc, chunks[k])]]

\* the record's head taken from the token itself
dependency_parse_OwnText(doc) ==
    [dependencies |-> [i \in 1..Len(doc.tokens) |->
        [token    |-> doc.tokens[i].text,
         dep      |-> doc.tokens[i].dep,
         head     |-> doc.tokens[i].text,
         children |-> LET c == Children(doc, i)
                      IN  [k \in 1..Len(c) |-> doc.tokens[c[k]].text]]]]

\* POST /dependency-parse
dependency_parse(doc) ==
    [dependencies |-> [i \in 1..Len(doc.tokens) |->
        [token    |-> doc.tokens[i].text,
         dep      |-> doc.tokens[i].dep,
         head     |-> doc.tokens[doc.tokens[i].head].text,
         children |-> LET c == Children(doc, i)
                      IN  [k \in 1..Len(c) |-> doc.tokens[c[k]].text]]]]

TextEndpoints == {"/ner", "/pos", "/basic-analysis", "/dependency-parse"}
Endpoints == TextEndpoints \cup {"/similarity"}

\* the well-formed bodies of an endpoint: a TextRequest or a TextsRequest
TextRequest == {[text |-> t] : t \in Texts}
TextsRequest == {[texts |-> ts] : ts \in TextLists(MaxTexts, MaxTextLen)}
Bodies(ep) == IF ep = "/similarity" THEN TextsRequest ELSE TextRequest

\* every handler parsing its text a second time
NlpArgs_Reparse(ep, body) ==
    IF ep = "/similarity" THEN <<body.texts[1], body.texts[2]>>
    ELSE <<body.text, body.text>>

\* the texts a handler passes to nlp(...), in the order of its calls
NlpArgs(ep, body) ==
    IF ep = "/similarity" THEN <<body.texts[1], body.texts[2]>> ELSE <<body.text>>

\* what a handler returns once its nlp(...) calls have returned `docs`
Respond(ep, docs) ==
    CASE ep = "/ner"              -> Ok(named_entity_recognition(docs[1]))
      [] ep = "/pos"              -> Ok(parts_of_speech(docs[1]))
      [] ep = "/similarity"       -> Ok(text_similarity(docs[1], docs[2]))
      [] ep = "/basic-analysis"   -> Ok(basic_analysis(docs[1]))
      [] ep = "/dependency-parse" -> Ok(dependency_parse(docs[1]))

(* ---- the process ---- *)
VARIABLES
    installed,  \* the build of en_core_web_sm in the environment, or NotInstalled
    proc,       \* "starting", "loaded", "serving" or "failed"
    nlp,        \* the module global nlp: Unset or the loaded build
    loads,      \* how many times spacy.load has been called
    arrived,    \* how many requests the server has received
    pending,    \* how many of them wait for the event loop
    cur         \* the request the event loop runs, or ran last

vars == <<installed, proc, nlp, loads, arrived, pending, cur>>

Idle == [pc |-> "idle"]
NotInstalled == [entLabel |-> "not installed"]
Unset == [entLabel |-> "unset"]

Init ==
    /\ installed \in Builds \cup {NotInstalled}
    /\ proc = "starting"
    /\ nlp = Unset
    /\ loads = 0
    /\ arrived = 0
    /\ pending = 0
    /\ cur = Idle

\* the import with the OSError swallowed: the process goes on without a model
LoadModel_Swallow ==
    /\ proc = "starting"
    /\ loads' = loads + 1
    /\ nlp' = IF installed # NotInstalled THEN installed ELSE nlp
    /\ proc' = "loaded"
    /\ UNCHANGED <<installed, arrived, pending, cur>>

\* import of the module: nlp = spacy.load("en_core_web_sm"), or RuntimeError
LoadModel ==
    /\ proc = "starting"
    /\ loads' = loads + 1
    /\ \/ /\ installed # NotInstalled
          /\ nlp' = installed
          /\ proc' = "loaded"
       \/ /\ installed = NotInstalled
          /\ nlp' = nlp
          /\ proc' = "failed"
    /\ UNCHANGED <<installed, arrived, pending, cur>>

\* uvicorn.run(app, host="0.0.0.0", port=8000)
Run ==
    /\ proc = "loaded"
    /\ proc' = "serving"
    /\ UNCHANGED <<installed, nlp, loads, arrived, pending, cur>>

\* a client's request reaches the listening socket
Arrive ==
    /\ proc = "serving"
    /\ arrived < MaxReqs
    /\ arrived' = arrived + 1
    /\ pending' = pending + 1
    /\ UNCHANGED <<installed, proc, nlp, loads, cur>>

\* the event loop is free when it runs no handler: the handlers are coroutines
\* that never await, so a started handler keeps the loop until it has returned
LoopFree == cur.pc = "idle"

\* a started handler up to its first nlp(...) call, or to the HTTPException it
\* raises before it
Started(ep, body) ==
    LET early == IF ep = "/similarity"
                 THEN text_similarity_check(body.texts) ELSE NoResponse
    IN  [ep |-> ep, body |-> body, calls |-> 0, docs |-> <<>>,
         pc |-> IF early = NoResponse THEN "nlp" ELSE "done",
         resp |-> early]

\* the event loop starts the handler of a waiting request
Dispatch ==
    /\ proc = "serving"
    /\ pending > 0
    /\ LoopFree
    /\ pending' = pending - 1
    /\ \E ep \in Endpoints : \E body \in Bodies(ep) : cur' = Started(ep, body)
    /\ UNCHANGED <<installed, proc, nlp, loads, arrived>>

\* the handler `c` after the nlp(...) call it is in has returned from `engine`:
\* it goes on to its next nlp(...) call, or builds its response and returns
Returned(c, engine) ==
    LET args == NlpArgs(c.ep, c.body)
        docs == Append(c.docs, Doc(engine, args[c.calls + 1]))
        last == c.calls + 1 = Len(args)
    IN  [c EXCEPT !.calls = c.calls + 1,
                  !.docs = IF last THEN <<>> ELSE docs,
                  !.pc = IF last THEN "done" ELSE "nlp",
                  !.resp = IF last THEN Respond(c.ep, docs) ELSE NoResponse]

\* a handler that replaces the shared pipeline while it runs
NlpReturn_Reassigns ==
    /\ cur.pc = "nlp"
    /\ cur' = Returned(cur, nlp)
    /\ nlp' = CHOOSE b \in Builds : b # nlp
    /\ UNCHANGED <<installed, proc, loads, arrived, pending>>

\* the nlp(...) call of the running handler returns
NlpReturn ==
    /\ cur.pc = "nlp"
    /\ cur' = Returned(cur, nlp)
    /\ UNCHANGED <<installed, proc, nlp, loads, arrived, pending>>

\* the response (or the error) of the returned handler is sent to the client
Reply ==
    /\ cur.pc = "done"
    /\ cur' = Idle
    /\ UNCHANGED <<installed, proc, nlp, loads, arrived, pending>>

Next ==
    \/ LoadModel
    \/ Run
    \/ Arrive
    \/ Dispatch
    \/ NlpReturn
    \/ Reply

Spec == Init /\ [][Next]_vars
(* ======================= the claims ======================= *)

Handled == cur.pc = "done"
Succeeded == Handled /\ cur.resp.status = 200

\* C1: a /similarity request whose texts list does not hold exactly two texts
\* ends with the HTTP 400 error whose detail is the fixed message, and no
\* nlp(...) call is made for it: such a request is never inside an nlp call
\* and has made none when its handler has ended.
ClaimC1 ==
    (cur.pc # "idle" /\ cur.ep = "/similarity" /\ Len(cur.body.texts) # 2)
        => /\ cur.pc = "done"
           /\ cur.calls = 0
           /\ cur.resp = [status |-> 400,
                          detail |-> "Exactly two texts must be provided for similarity comparison"]

WitnessC1 ==
    /\ Handled
    /\ cur.ep = "/similarity"
    /\ Len(cur.body.texts) = 3
    /\ cur.resp.status = 400

\* C3 as stated: every request that passed validation has made exactly one
\* nlp(...) call when its response is produced, whatever the endpoint.
OriginalC3 == Succeeded => cur.calls = 1

\* C3 amended: a request that passed validation has made exactly one
\* nlp(...) call when its response is produced on /ner, /pos, /basic-analysis
\* and /dependency-parse, and exactly two (one per text) on /similarity.
AmendedC3 ==
    Succeeded => cur.calls = (IF cur.ep = "/similarity" THEN 2 ELSE 1)

WitnessC3 ==
    /\ Succeeded
    /\ cur.ep = "/similarity"
    /\ cur.calls = 2

\* C5: the model is loaded once, at process start; no request is received or
\* handled unless that load succeeded; a failed load leaves the process
\* failed, with no model and no second load.
ClaimC5 ==
    /\ loads <= 1
    /\ proc \in {"loaded", "serving"} => (loads = 1 /\ nlp = installed /\ nlp \in Builds)
    /\ (arrived > 0 \/ cur.pc # "idle") => proc = "serving"
    /\ proc = "failed" => (loads = 1 /\ installed = NotInstalled /\ nlp = Unset
                           /\ arrived = 0 /\ cur.pc = "idle" /\ ~ENABLED LoadModel)
    /\ installed = NotInstalled => proc \in {"starting", "failed"}

WitnessC5 ==
    /\ proc = "failed"
    /\ installed = NotInstalled
    /\ loads = 1
\* C2 as stated: while one handler's nlp(...) call is pending, every other
\* request that has arrived can still be started.
ClaimC2 == (cur.pc = "nlp" /\ pending > 0) => ENABLED Dispatch

RECURSIVE RunAlone(_)
\* the handler `c` run to its end against the build the process loaded at start
RunAlone(c) == IF c.pc = "done" THEN c ELSE RunAlone(Returned(c, installed))

\* the response a request gets when it is the first one the process serves
FirstServed(ep, body) == RunAlone(Started(ep, body)).resp

\* C4: whatever requests were served before, a handled request's response is
\* the one it would get as the first request served, and the shared handle
\* nlp still is the pipeline loaded at start.
ClaimC4 ==
    /\ proc \in {"loaded", "serving"} => nlp = installed
    /\ Handled => cur.resp = FirstServed(cur.ep, cur.body)

\* a request answered after two earlier ones were served
WitnessC4 ==
    /\ Handled
    /\ cur.resp.status = 200
    /\ arrived - pending = 3

\* the engine's parse of the text of the handled /dependency-parse request
ParsedDoc == Doc(nlp, cur.body.text)
SingleSentence ==
    /\ Succeeded
    /\ cur.ep = "/dependency-parse"
    /\ Len(Sents(ParsedDoc)) = 1
SelfHeaded == {i \in 1..Len(cur.resp.body.dependencies) :
                 cur.resp.body.dependencies[i].head = cur.resp.body.dependencies[i].token}
Roots == {i \in 1..Len(ParsedDoc.tokens) : ParsedDoc.tokens[i].head = i}

\* C6 as stated: on a single-sentence input exactly one dependency record has
\* head equal to its own token, and it is the root's.
OriginalC6 == SingleSentence => (Cardinality(SelfHeaded) = 1 /\ SelfHeaded = Roots)

\* C6 amended: on a single-sentence input there is one record per token, the
\* sentence has exactly one root and the root's record has head equal to its
\* token; a non-root token's record has head equal to its token exactly when
\* its head token has the same surface text.
AmendedC6 ==
    SingleSentence =>
        LET deps == cur.resp.body.dependencies
            toks == ParsedDoc.tokens
        IN  /\ Len(deps) = Len(toks)
            /\ Cardinality(Roots) = 1
            /\ Roots \subseteq SelfHeaded
            /\ \A i \in 1..Len(toks) :
                  /\ deps[i].token = toks[i].text
                  /\ deps[i].head = toks[toks[i].head].text
                  /\ i \notin Roots =>
                        (i \in SelfHeaded <=> toks[toks[i].head].text = toks[i].text)

\* a single sentence that repeats a surface text: a non-root token whose
\* record has head equal to its token
WitnessC6 ==
    /\ SingleSentence
    /\ \E i \in 1..Len(ParsedDoc.tokens) : i \notin Roots /\ i \in SelfHeaded
\* C7: every Entity returned by /ner has 0 <= start <= end <= len(text) and
\* text[start:end] equal to its text, and the k-th Entity is the k-th entity
\* the engine found in the text.
ClaimC7 ==
    (Succeeded /\ cur.ep = "/ner") =>
        LET text  == cur.body.text
            found == Ents(Doc(nlp, text))
            ents  == cur.resp.body.entities
        IN  /\ Len(ents) = Len(found)
            /\ \A k \in 1..Len(ents) :
                  /\ 0 <= ents[k].start
                  /\ ents[k].start <= ents[k].end
                  /\ ents[k].end <= Len(text)
                  /\ Slice(text, ents[k].start, ents[k].end) = ents[k].text
                  /\ ents[k].start = StartChar(Doc(nlp, text), found[k])
                  /\ ents[k].end = EndChar(Doc(nlp, text), found[k])
                  /\ ents[k].label = found[k].label
            /\ \A k \in 1..(Len(ents) - 1) : ents[k].end <= ents[k + 1].start

\* two entities, the second one not at the start of the text
WitnessC7 ==
    /\ Succeeded
    /\ cur.ep = "/ner"
    /\ Len(cur.resp.body.entities) = 2
    /\ cur.resp.body.entities[2].start = 2

\* C8: /pos returns as many Token records as the engine's tokenization of the
\* text has tokens, the i-th record projected from the i-th engine token, and
\* every record's text is a contiguous substring of the text.
ClaimC8 ==
    (Succeeded /\ cur.ep = "/pos") =>
        LET text == cur.body.text
            toks == Doc(nlp, text).tokens
            out  == cur.resp.body.tokens
        IN  /\ Len(out) = Len(toks)
            /\ \A i \in 1..Len(out) :
                  /\ out[i] = [text |-> toks[i].text, pos |-> toks[i].pos,
                               tag |-> toks[i].tag, dep |-> toks[i].dep,
                               lemma |-> toks[i].lemma]
                  /\ \E start \in 0..Len(text) :
                        /\ start + Len(out[i].text) <= Len(text)
                        /\ Slice(text, start, start + Len(out[i].text)) = out[i].text

\* three tokens of three kinds
WitnessC8 ==
    /\ Succeeded
    /\ cur.ep = "/pos"
    /\ Len(cur.resp.body.tokens) = 3
    /\ {cur.resp.body.tokens[i].pos : i \in 1..3} = {"PROPN", "PUNCT", "SPACE"}

\* C9: /similarity with exactly two texts returns one float, the engine's
\* similarity of the Doc of texts[0] to the Doc of texts[1]; for two equal
\* texts it is the engine's similarity of that Doc to itself.
ClaimC9 ==
    (Handled /\ cur.ep = "/similarity" /\ Len(cur.body.texts) = 2) =>
        LET doc1 == Doc(nlp, cur.body.texts[1])
            doc2 == Doc(nlp, cur.body.texts[2])
            want == Similarity(doc1, doc2)
        IN  /\ cur.resp.status = 200
            /\ DOMAIN cur.resp.body = {"similarity"}
            /\ cur.resp.body.similarity.type = "float"
            /\ cur.resp.body.similarity.num = want.num
            /\ cur.resp.body.similarity.den = want.den
            /\ cur.body.texts[1] = cur.body.texts[2] =>
                  /\ cur.resp.body.similarity.num = Similarity(doc1, doc1).num
                  /\ cur.resp.body.similarity.den = Similarity(doc1, doc1).den

\* two different texts that are neither orthogonal nor parallel
WitnessC9 ==
    /\ Succeeded
    /\ cur.ep = "/similarity"
    /\ cur.body.texts[1] # cur.body.texts[2]
    /\ 0 < cur.resp.body.similarity.num
    /\ cur.resp.body.similarity.num < cur.resp.body.similarity.den

\* C10: /basic-analysis on the empty string succeeds and returns empty
\* sequences for tokens, lemmas, sentences and noun_phrases.
ClaimC10 ==
    (Handled /\ cur.ep = "/basic-analysis" /\ cur.body.text = <<>>) =>
        /\ cur.resp.status = 200
        /\ cur.resp.body = [tokens |-> <<>>, lemmas |-> <<>>,
                            sentences |-> <<>>, noun_phrases |-> <<>>]

WitnessC10 ==
    /\ Succeeded
    /\ cur.ep = "/basic-analysis"
    /\ Len(cur.body.text) = 0
====
